---- MODULE Spec2Model ----
(***************************************************************************)
(* Model of the tool-use orchestration loop of bin/scripts/client.py       *)
(* (MCPClient.process_query driven by MCPClient.chat_loop).                *)
(*                                                                         *)
(* One step of the model is one suspension point of the coroutine: reading *)
(* a line, the list_tools round trip, one model call, one pass of the      *)
(* block loop (with or without a call_tool round trip), the append of the  *)
(* tool-result turn, and the print of the returned string.  The model      *)
(* endpoint, the remote tool server and the user are the environment:      *)
(* their answers are chosen nondeterministically from small sets.          *)
(***************************************************************************)
EXTENDS Integers, Sequences, FiniteSets, TLC

VARIABLES
    pc,                     \* control position of the session
    query,                  \* process_query: parameter `query`
    messages,               \* process_query: local `messages` (the transcript)
    turn,                   \* process_query: loop variable `turn`
    response,               \* process_query: local `response`
    bi,                     \* process_query: position of `block` in response.content
    tool_results_content,   \* process_query: local `tool_results_content`
    resp,                   \* the value process_query returns (chat_loop: `resp`)
    sent,                   \* history: the transcript passed to the latest model call of this run
    model_calls,            \* history: number of model calls of this run
    dispatched,             \* history: the call_tool round trips of this cycle: id, raised or not
    tool_calls,             \* history: number of call_tool round trips in this run
    queries,                \* history: number of process_query calls of the session
    varied,                 \* history: number of non-default answers of the environment in this run
    events,                 \* history: the calls issued and returned in this cycle, in order
    catalogue,              \* the tools the remote tool-serving session offers at present
    anthropic_tools,        \* process_query: local `anthropic_tools`
    tools_sent,             \* history: the tool lists passed to the model calls of this run
    list_calls,             \* history: number of list_tools calls of this run
    model_text,             \* the translators: what the model call answered
    gmail_query,            \* chat_loop: local `gmail_query`
    call_params,            \* chat_loop: local `call_params`
    result,                 \* chat_loop: local `result` (output of a processor subprocess)
    connects,               \* history: number of calls of connect
    cleanups,               \* history: number of calls of cleanup
    exit_from,              \* history: the position main's finally clause was entered from
    raised_by,              \* history: the call whose exception left chat_loop
    line,                   \* chat_loop: q, the last line read, stripped
    g_pc,                   \* gmail_processor main: control position of the search
    matching,               \* Gmail service: number of messages matching the query
    page_size,              \* Gmail service: the most messages it puts on one page
    all_messages,           \* gmail_processor main: local `all_messages`
    page_token,             \* gmail_processor main: local `page_token`
    found,                  \* gmail_processor main: local `messages`
    requests,               \* history: the maxResults of the list requests issued, in order
    g_creds,                \* gmail_processor environment: what credentials there are to find
    g_configured,           \* gmail_processor environment: gmailQuery of the actor input or local file
    search_query,           \* gmail_processor main: local `gmail_query`
    service_built,          \* history: number of Gmail services built
    r_pc,                   \* retell_processor main: control position
    r_cfg,                  \* retell_processor main: api_key, from_number, to_number, agent_id; sdk present
    r_behaviour,            \* telephony SDK: what the client does when it is built and called
    clients_built,          \* history: number of telephony clients constructed
    create_calls,           \* history: number of invocations of create_phone_call
    placed                  \* telephony service: number of phone calls placed

toolvars == <<catalogue, anthropic_tools, tools_sent, list_calls>>

cmdvars == <<model_text, gmail_query, call_params, result>>

sessvars == <<connects, cleanups, exit_from, raised_by, line>>

gvars == <<g_pc, matching, page_size, all_messages, page_token, found, requests,
           g_creds, g_configured, search_query, service_built>>

rvars == <<r_pc, r_cfg, r_behaviour, clients_built, create_calls, placed>>

loopvars == <<pc, query, messages, turn, response, bi, tool_results_content,
              resp, sent, model_calls, dispatched, tool_calls, queries, varied>>

vars == <<loopvars, events, toolvars, cmdvars, sessvars, gvars, rvars>>

----------------------------------------------------------------------------
(* Bounds of the model *)

\* process_query calls per chat session
MaxQueries == 2

\* answers of the environment, per process_query call, that differ from the
\* default one (default: list_tools succeeds, the model asks for two tools,
\* each tool returns one text item)
MaxVaried == 1

\* the non-default answers are given in the cycles 1..MaxFreeCycle of a run
\* and in its last cycle, the cycle MAX_TURNS; in between the model and the
\* tools give the default answer
MaxFreeCycle == 2

----------------------------------------------------------------------------
(* Program constants *)

MAX_TURNS == 15

MaxTurnsSentinel == "Error: Maximum tool turns reached."

NoTextOutput == "Tool executed successfully (no text output)."

gmail_keywords ==
    <<"email", "gmail", "inbox", "message", "mail", "inbox", "attachment", "pdf", "invoice">>

\* stands for the multi-line system_context literal
system_context == "You can help users search Gmail by generating Gmail search queries."

----------------------------------------------------------------------------
(* Python string and list helpers *)

UpperChars == "ABCDEFGHIJKLMNOPQRSTUVWXYZ"
LowerChars == "abcdefghijklmnopqrstuvwxyz"

LowerChar(c) ==
    IF \E i \in 1..26 : SubSeq(UpperChars, i, i) = c
    THEN LET i == CHOOSE j \in 1..26 : SubSeq(UpperChars, j, j) = c
         IN  SubSeq(LowerChars, i, i)
    ELSE c

RECURSIVE Lower(_)
Lower(s) ==
    IF Len(s) = 0 THEN ""
    ELSE LowerChar(SubSeq(s, 1, 1)) \o Lower(SubSeq(s, 2, Len(s)))

\* Python `k in s` on strings
Contains(s, k) ==
    \E i \in 1..(Len(s) - Len(k) + 1) : SubSeq(s, i, i + Len(k) - 1) = k

\* Python "\n".join(parts)
RECURSIVE Join(_)
Join(parts) ==
    IF Len(parts) = 0 THEN ""
    ELSE IF Len(parts) = 1 THEN parts[1]
    ELSE parts[1] \o "\n" \o Join(Tail(parts))

\* [b.text for b in blocks if b.type == "text"]
RECURSIVE TextsOf(_)
TextsOf(blocks) ==
    IF Len(blocks) = 0 THEN <<>>
    ELSE IF blocks[1].type = "text"
         THEN <<blocks[1].text>> \o TextsOf(Tail(blocks))
         ELSE TextsOf(Tail(blocks))

IsPrefix(s, t) ==
    /\ Len(s) <= Len(t)
    /\ \A i \in 1..Len(s) : s[i] = t[i]

----------------------------------------------------------------------------
(* The environment: user lines, model responses, tool-server answers *)

Queries == {"what's the weather", "Find the INVOICE pdf"}

TextBlock(t) == [type |-> "text", text |-> t, id |-> "", name |-> ""]
OtherBlock == [type |-> "thinking", text |-> "hm", id |-> "", name |-> ""]

\* the tools the specification says are implemented by local handlers (a
\* Gmail-draft creator and an actor builder); client.py declares none
LocalToolNames == {"create_gmail_draft", "build_actor"}

\* the call identifiers the model endpoint issues: one per cycle and block
\* (the endpoint would answer a call beyond the budget as well)
ToolUseId == [n \in 1..(MAX_TURNS + 1) |-> [k \in 1..3 |->
                 "toolu_" \o ToString(n) \o "_" \o ToString(k)]]

ToolUse(n, k, nm) ==
    [type |-> "tool_use", text |-> "", id |-> ToolUseId[n][k], name |-> nm]

\* the responses the model endpoint may give to the call of cycle n
ResponsesOf ==
    [n \in 1..(MAX_TURNS + 1) |->
        [default |->
            [stop_reason |-> "tool_use",
             content |-> <<ToolUse(n, 1, "search"), ToolUse(n, 2, "fetch")>>],
         other |->
            { [stop_reason |-> "tool_use",
               content |-> <<TextBlock("a"), ToolUse(n, 1, "search"),
                             ToolUse(n, 2, "fetch"), TextBlock("b"),
                             ToolUse(n, 3, "create_gmail_draft")>>],
              [stop_reason |-> "tool_use", content |-> <<TextBlock("a")>>],
              [stop_reason |-> "end_turn",
               content |-> <<TextBlock("a"), OtherBlock, TextBlock("b")>>],
              [stop_reason |-> "end_turn", content |-> <<>>],
              [stop_reason |-> "max_tokens",
               content |-> <<TextBlock("a"), ToolUse(n, 1, "search")>>] }]]

DefaultResponse(n) == ResponsesOf[n].default

Responses(n) == {DefaultResponse(n)} \cup ResponsesOf[n].other

\* messages of the exceptions the model call may raise
ApiErrors == {"overloaded"}

\* what call_tool may do: return content items, or raise
ToolText(t) == [type |-> "text", text |-> t]
ToolImage == [type |-> "image", text |-> ""]

DefaultToolOutcome ==
    [raised |-> FALSE, content |-> <<ToolText("r")>>, error |-> ""]

ToolOutcomes ==
    { DefaultToolOutcome,
      [raised |-> FALSE, content |-> <<ToolText("r"), ToolImage, ToolText("s")>>, error |-> ""],
      [raised |-> FALSE, content |-> <<ToolImage>>, error |-> ""],
      [raised |-> FALSE, content |-> <<ToolText("")>>, error |-> ""],
      [raised |-> TRUE, content |-> <<>>, error |-> "boom"] }

\* cost of an answer of the environment against the MaxVaried budget
Cost(answer, default) == IF answer = default THEN 0 ELSE 1

\* the environment may give this answer in cycle n, `used` non-default answers
\* having been given in this run
MayAnswer(answer, default, n, used) ==
    \/ answer = default
    \/ /\ used < MaxVaried
       /\ n <= MaxFreeCycle \/ n = MAX_TURNS

----------------------------------------------------------------------------
(* process_query, lines 55-76: the initial transcript *)

is_gmail_query ==
    [q \in Queries |->
        \E i \in 1..Len(gmail_keywords) : Contains(Lower(q), gmail_keywords[i])]

InitialMessages(q) ==
    IF is_gmail_query[q]
    THEN <<[role |-> "system", content |-> system_context],
           [role |-> "user", content |-> q]>>
    ELSE <<[role |-> "user", content |-> q]>>

NoResponse == [stop_reason |-> "", content |-> <<>>]

----------------------------------------------------------------------------
(* The translators, lines 163-215 and 273-323: Python's string methods *)

\* three backquote characters open and close a markdown code block; a
\* TLA+ string cannot hold a backquote, so a tilde stands for it in all texts
Fence == "~~~"

IsSpace(c) == c \in {" ", "\n", "\t"}

StartsWith(s, p) == Len(s) >= Len(p) /\ SubSeq(s, 1, Len(p)) = p

EndsWith(s, p) == Len(s) >= Len(p) /\ SubSeq(s, Len(s) - Len(p) + 1, Len(s)) = p

RECURSIVE LStrip(_)
LStrip(s) ==
    IF Len(s) > 0 /\ IsSpace(SubSeq(s, 1, 1)) THEN LStrip(SubSeq(s, 2, Len(s))) ELSE s

RECURSIVE RStrip(_)
RStrip(s) ==
    IF Len(s) > 0 /\ IsSpace(SubSeq(s, Len(s), Len(s)))
    THEN RStrip(SubSeq(s, 1, Len(s) - 1))
    ELSE s

\* str.strip()
Strip(s) == RStrip(LStrip(s))

\* the index of the first newline of s at or after i, Len(s) + 1 if none
RECURSIVE NextNewline(_, _)
NextNewline(s, i) ==
    IF i > Len(s) \/ SubSeq(s, i, i) = "\n" THEN i ELSE NextNewline(s, i + 1)

\* str.split("\n")
RECURSIVE Split(_)
Split(s) ==
    LET n == NextNewline(s, 1)
    IN  IF n > Len(s) THEN <<s>>
        ELSE <<SubSeq(s, 1, n - 1)>> \o Split(SubSeq(s, n + 1, Len(s)))

\* s[1:-1]
Inner(s) == SubSeq(s, 2, Len(s) - 1)

\* lines 201-203 and 306-308: the lines that do not begin with the fence
Unfence(s) ==
    IF StartsWith(s, Fence)
    THEN Strip(Join(SelectSeq(Split(s), LAMBDA l : ~StartsWith(Strip(l), Fence))))
    ELSE s

\* lines 205-208: one pair of outer quotes, double or single
Unquote(s) ==
    IF StartsWith(s, "\"") /\ EndsWith(s, "\"") THEN Inner(s)
    ELSE IF StartsWith(s, "'") /\ EndsWith(s, "'") THEN Inner(s)
    ELSE s

\* lines 310-311: one pair of outer double quotes
UnquoteDouble(s) ==
    IF StartsWith(s, "\"") /\ EndsWith(s, "\"") THEN Inner(s) ELSE s

\* lines 199-209: the query taken from the text of the first text block
QueryOf(text) == Unquote(Unfence(Strip(text)))

\* lines 304-312: the JSON text taken from the text of the first text block
JsonStrOf(text) == UnquoteDouble(Unfence(Strip(text)))

----------------------------------------------------------------------------
(* The translators: what the model endpoint may answer, and json.loads *)

\* the answer of a translator's model call: the text of its first text
\* block (empty when it has none) and the payload that text wraps
ModelText(raw, payload) == [kind |-> "text", raw |-> raw, payload |-> payload]

\* messages.create raised
ApiFailure == [kind |-> "api_error", raw |-> "", payload |-> ""]

\* no translator has been called for the line
NoText == [kind |-> "none", raw |-> "", payload |-> ""]

GmailPayload == "subject:invoice after:2024/01/01"

QuotedPayload == "subject:\"Rate Confirmation\""

\* a query in Gmail's negation syntax
NegatedPayload == "-from:noreply@example.com"

GmailTexts ==
    { ModelText(GmailPayload, GmailPayload),
      ModelText(QuotedPayload, QuotedPayload),
      ModelText("  " \o GmailPayload \o "\n", GmailPayload),
      ModelText("\"" \o GmailPayload \o "\"", GmailPayload),
      ModelText("'" \o GmailPayload \o "'", GmailPayload),
      ModelText(Fence \o "\n" \o GmailPayload \o "\n" \o Fence, GmailPayload),
      ModelText(Fence \o "text\n\"" \o GmailPayload \o "\"\n" \o Fence \o "\n", GmailPayload),
      ModelText(Fence \o GmailPayload \o Fence, GmailPayload),
      ModelText(NegatedPayload, NegatedPayload),
      ModelText("", "") }

ParamsJson == "{\"from_number\": \"+1415\", \"to_number\": \"+1213\", \"agent_id\": \"abc123\"}"

PartialJson == "{\"to_number\": \"+1213\"}"

CallTexts ==
    { ModelText(ParamsJson, ParamsJson),
      ModelText(PartialJson, PartialJson),
      ModelText(Fence \o "json\n" \o ParamsJson \o "\n" \o Fence, ParamsJson),
      ModelText(Fence \o ParamsJson \o Fence, ParamsJson),
      ModelText("I need the agent id.", "I need the agent id."),
      ModelText("  not json\n", "not json"),
      ModelText("null", "null"),
      ModelText("[]", "[]"),
      ModelText("42", "42"),
      ModelText("", "") }

\* a parsed JSON value: its kind and, for an object, its key/value pairs
Dict(items) == [kind |-> "dict", items |-> items]

HasKey(v, k) == \E it \in v.items : it[1] = k

\* dict.get: the value of key k, "" standing for None
Get(v, k) == IF HasKey(v, k) THEN (CHOOSE it \in v.items : it[1] = k)[2] ELSE ""

\* json.loads on the texts it parses; on every other text it raises
\* JSONDecodeError
JsonDocs ==
    (ParamsJson :> Dict({<<"from_number", "+1415">>, <<"to_number", "+1213">>,
                         <<"agent_id", "abc123">>}))
    @@ (PartialJson :> Dict({<<"to_number", "+1213">>}))
    @@ ("null" :> [kind |-> "null", items |-> {}])
    @@ ("[]" :> [kind |-> "list", items |-> {}])
    @@ ("42" :> [kind |-> "number", items |-> {}])

\* str(e) of the JSONDecodeError of a text that is no JSON from its first character
DecodeError == "Expecting value: line 1 column 1 (char 0)"

\* lines 315-319
ParamsOfJson(json_str) ==
    IF json_str \in DOMAIN JsonDocs
    THEN JsonDocs[json_str]
    ELSE Dict({<<"error", "Invalid JSON response: " \o DecodeError>>,
               <<"raw", json_str>>})

\* lines 295-323: what generate_phone_call_params returns
PhoneCallParams(t) ==
    IF t.kind = "api_error"
    THEN Dict({<<"error", "Error generating phone call parameters: overloaded">>})
    ELSE ParamsOfJson(JsonStrOf(t.raw))

\* lines 190-215: what generate_gmail_query returns
GmailQuery(t) ==
    IF t.kind = "api_error"
    THEN "Error generating query: overloaded"
    ELSE QueryOf(t.raw)

\* how a processor subprocess may end: the script is missing, Popen or
\* communicate raises, or the process exits with a code and its output
ProcessorOutcomes ==
    { [kind |-> "exit", returncode |-> "0", output |-> "3 messages"],
      [kind |-> "exit", returncode |-> "0", output |-> " \n"],
      [kind |-> "exit", returncode |-> "1", output |-> "Traceback"],
      [kind |-> "raised", returncode |-> "", output |-> "boom"],
      [kind |-> "missing", returncode |-> "", output |-> ""] }

\* lines 222-271 and 330-373: the string a processor wrapper returns
ProcessorResult(name, done, o) ==
    IF o.kind = "missing" THEN "Error: " \o name \o " processor not found"
    ELSE IF o.kind = "raised" THEN "Error executing " \o name \o " processor: " \o o.output
    ELSE IF o.returncode = "0"
         THEN IF Strip(o.output) # "" THEN o.output
              ELSE done \o " executed successfully (no output)."
         ELSE name \o " processor error (exit code " \o o.returncode \o "):\n" \o o.output

GmailLines == {"gmail: find invoices since January"}

CallLines == {"call: +1213 from +1415 with agent abc123"}

\* the remote catalogue, and the catalogue after the server has dropped a tool
ToolDescriptor(nm) ==
    [name |-> nm, description |-> "runs " \o nm, inputSchema |-> "object"]

Catalogues ==
    <<  <<ToolDescriptor("search"), ToolDescriptor("fetch")>>,
        <<ToolDescriptor("search")>>  >>

\* lines 80-84
AnthropicTools(tools) ==
    [i \in 1..Len(tools) |->
        [name |-> tools[i].name,
         description |-> tools[i].description,
         input_schema |-> tools[i].inputSchema]]

\* call_params before generate_phone_call_params has returned
NoParams == [kind |-> "unset", items |-> {}]

\* gmail_processor is not running
GmailIdle ==
    /\ g_pc = "idle"
    /\ matching = 0
    /\ page_size = 0
    /\ all_messages = <<>>
    /\ page_token = 0
    /\ found = <<>>
    /\ requests = <<>>
    /\ g_creds = "absent"
    /\ g_configured = ""
    /\ search_query = ""
    /\ service_built = 0

\* the configuration of a retell_processor run
RetellConfig(api_key, from_number, to_number, agent_id, sdk) ==
    [api_key |-> api_key, from_number |-> from_number, to_number |-> to_number,
     agent_id |-> agent_id, sdk |-> sdk]

\* retell_processor is not running
RetellIdle ==
    /\ r_pc = "idle"
    /\ r_cfg = RetellConfig("", "", "", "", FALSE)
    /\ r_behaviour = "awaitable"
    /\ clients_built = 0
    /\ create_calls = 0
    /\ placed = 0

\* the client before main has called connect
ClientStart ==
    /\ pc = "start"
    /\ events = <<>>
    /\ catalogue = Catalogues[1]
    /\ anthropic_tools = <<>>
    /\ tools_sent = {}
    /\ list_calls = 0
    /\ model_text = NoText
    /\ gmail_query = ""
    /\ call_params = NoParams
    /\ result = ""
    /\ connects = 0
    /\ cleanups = 0
    /\ exit_from = ""
    /\ raised_by = ""
    /\ line = ""
    /\ query = ""
    /\ messages = <<>>
    /\ turn = 0
    /\ response = NoResponse
    /\ bi = 0
    /\ tool_results_content = <<>>
    /\ resp = ""
    /\ sent = <<>>
    /\ model_calls = 0
    /\ dispatched = <<>>
    /\ tool_calls = 0
    /\ queries = 0
    /\ varied = 0

Init == ClientStart /\ GmailIdle /\ RetellIdle

----------------------------------------------------------------------------
(* main, lines 442-453, and connect, lines 32-52 *)

\* connect opens the transport and the session, initializes it and lists the tools
Connect ==
    /\ pc = "start"
    /\ pc' = "prompt"
    /\ connects' = connects + 1
    /\ UNCHANGED <<query, messages, turn, response, bi, tool_results_content, resp, sent,
                   model_calls, dispatched, tool_calls, queries, varied,
                   events, toolvars, cmdvars, cleanups, exit_from, raised_by, gvars, rvars>>
    /\ UNCHANGED line

\* one of the awaited calls of connect raises
ConnectFails ==
    /\ pc = "start"
    /\ pc' = "connect_failed"
    /\ connects' = connects + 1
    /\ UNCHANGED <<query, messages, turn, response, bi, tool_results_content, resp, sent,
                   model_calls, dispatched, tool_calls, queries, varied,
                   events, toolvars, cmdvars, cleanups, exit_from, raised_by, gvars, rvars>>
    /\ UNCHANGED line

\* variant: cleanup follows chat_loop without a try/finally
Cleanup_AfterChatLoopOnly ==
    /\ pc \in {"quit", "raised", "connect_failed"}
    /\ pc' = "exited"
    /\ exit_from' = pc
    /\ cleanups' = IF pc = "quit" THEN cleanups + 1 ELSE cleanups
    /\ UNCHANGED <<query, messages, turn, response, bi, tool_results_content, resp, sent,
                   model_calls, dispatched, tool_calls, queries, varied,
                   events, toolvars, cmdvars, connects, raised_by, gvars, rvars>>
    /\ UNCHANGED line

\* lines 452-453: the finally clause of main runs cleanup, however the try
\* block was left, and main ends
Cleanup ==
    /\ pc \in {"quit", "raised", "connect_failed"}
    /\ pc' = "exited"
    /\ exit_from' = pc
    /\ cleanups' = cleanups + 1
    /\ UNCHANGED <<query, messages, turn, response, bi, tool_results_content, resp, sent,
                   model_calls, dispatched, tool_calls, queries, varied,
                   events, toolvars, cmdvars, connects, raised_by, gvars, rvars>>
    /\ UNCHANGED line

\* the remote server changes the set of tools it offers while a run is in
\* progress, after the run has listed them and before a model call is issued
\* (a change after the last model call of a run is seen by nothing)
CatalogueChanges ==
    /\ pc = "model"
    /\ MayAnswer("changed", "unchanged", turn + 1, varied)
    /\ varied' = varied + 1
    /\ catalogue' = IF catalogue = Catalogues[1] THEN Catalogues[2] ELSE Catalogues[1]
    /\ UNCHANGED <<pc, query, messages, turn, response, bi, tool_results_content, resp, sent,
                   model_calls, dispatched, tool_calls, queries,
                   events, anthropic_tools, tools_sent, list_calls, cmdvars, sessvars, gvars, rvars>>

----------------------------------------------------------------------------
(* chat_loop, lines 382-384 and 435-437 *)

\* lines that end the loop, as typed
QuitLines == {"quit", "  EXIT "}

\* what input (line 382) can return
InputLines == Queries \cup GmailLines \cup CallLines \cup QuitLines

\* lines 382-435: the branch of chat_loop that the line read takes
Route(typed) ==
    LET q == Strip(typed) IN
    IF Lower(q) \in {"quit", "exit"} THEN "quit"
    ELSE IF StartsWith(Lower(q), "gmail:") THEN "gmail"
    ELSE IF StartsWith(Lower(q), "retell:") \/ StartsWith(Lower(q), "call:") THEN "retell"
    ELSE "process_query"

\* the branch taken by each line that input can return
RouteOf == [typed \in InputLines |-> Route(typed)]

\* line 382: q, the line as strip leaves it
Stripped == [typed \in InputLines |-> Strip(typed)]

\* variant: the transcript is an attribute of the client, created once, and
\* process_query appends the query to it
ReadQuery_KeepsHistory ==
    /\ pc = "prompt"
    /\ queries < MaxQueries
    /\ \E typed \in InputLines : LET q == Stripped[typed] IN
        /\ RouteOf[typed] = "process_query"
        /\ line' = Stripped[typed]
        /\ query' = q
        /\ messages' = Append(messages, [role |-> "user", content |-> q])
    /\ pc' = "list_tools"
    /\ turn' = 0
    /\ response' = NoResponse
    /\ bi' = 0
    /\ tool_results_content' = <<>>
    /\ sent' = <<>>
    /\ model_calls' = 0
    /\ dispatched' = <<>>
    /\ tool_calls' = 0
    /\ queries' = queries + 1
    /\ resp' = ""
    /\ varied' = 0
    /\ anthropic_tools' = <<>>
    /\ tools_sent' = {}
    /\ list_calls' = 0
    /\ events' = <<>>
    /\ model_text' = NoText
    /\ gmail_query' = ""
    /\ call_params' = NoParams
    /\ result' = ""
    /\ UNCHANGED <<catalogue, connects, cleanups, exit_from, raised_by, gvars, rvars>>

\* chat_loop reads a line that is no command and calls process_query, which
\* builds its transcript and reaches the list_tools call
ReadQuery ==
    /\ pc = "prompt"
    /\ queries < MaxQueries
    /\ \E typed \in InputLines : LET q == Stripped[typed] IN
        /\ RouteOf[typed] = "process_query"
        /\ line' = Stripped[typed]
        /\ query' = q
        /\ messages' = InitialMessages(q)
    /\ pc' = "list_tools"
    /\ turn' = 0
    /\ response' = NoResponse
    /\ bi' = 0
    /\ tool_results_content' = <<>>
    /\ sent' = <<>>
    /\ model_calls' = 0
    /\ dispatched' = <<>>
    /\ tool_calls' = 0
    /\ queries' = queries + 1
    /\ resp' = ""
    /\ varied' = 0
    /\ anthropic_tools' = <<>>
    /\ tools_sent' = {}
    /\ list_calls' = 0
    /\ events' = <<>>
    /\ model_text' = NoText
    /\ gmail_query' = ""
    /\ call_params' = NoParams
    /\ result' = ""
    /\ UNCHANGED <<catalogue, connects, cleanups, exit_from, raised_by, gvars, rvars>>

\* the locals of process_query and of the command branches, as a new line
\* of input finds them
FreshLine ==
    /\ messages' = <<>>
    /\ turn' = 0
    /\ response' = NoResponse
    /\ bi' = 0
    /\ tool_results_content' = <<>>
    /\ sent' = <<>>
    /\ model_calls' = 0
    /\ dispatched' = <<>>
    /\ tool_calls' = 0
    /\ resp' = ""
    /\ varied' = 0
    /\ anthropic_tools' = <<>>
    /\ tools_sent' = {}
    /\ list_calls' = 0
    /\ events' = <<>>
    /\ model_text' = NoText
    /\ gmail_query' = ""
    /\ call_params' = NoParams
    /\ result' = ""

\* lines 387-390: a line that begins with gmail: reaches generate_gmail_query
ReadGmail ==
    /\ pc = "prompt"
    /\ queries < MaxQueries
    /\ \E typed \in InputLines :
        /\ RouteOf[typed] = "gmail"
        /\ line' = Stripped[typed]
        /\ query' = Stripped[typed]
    /\ pc' = "gen_gmail"
    /\ queries' = queries + 1
    /\ FreshLine
    /\ UNCHANGED <<catalogue, connects, cleanups, exit_from, raised_by, gvars, rvars>>

\* lines 390-401: generate_gmail_query returns; a returned string that
\* begins with Error is printed, any other is passed to the processor
GenerateGmailQuery ==
    /\ pc = "gen_gmail"
    /\ \E t \in GmailTexts \cup {ApiFailure} :
        /\ model_text' = t
        /\ gmail_query' = GmailQuery(t)
    /\ pc' = IF StartsWith(gmail_query', "Error") THEN "prompt" ELSE "exec_gmail"
    /\ UNCHANGED <<query, messages, turn, response, bi, tool_results_content, resp, sent,
                   model_calls, dispatched, tool_calls, queries, varied,
                   events, toolvars, call_params, result, sessvars, gvars, rvars>>

\* lines 394-399: execute_gmail_processor returns and its result is printed
ExecuteGmailProcessor ==
    /\ pc = "exec_gmail"
    /\ \E o \in ProcessorOutcomes :
        result' = ProcessorResult("Gmail", "Gmail processor", o)
    /\ pc' = "prompt"
    /\ UNCHANGED <<query, messages, turn, response, bi, tool_results_content, resp, sent,
                   model_calls, dispatched, tool_calls, queries, varied,
                   events, toolvars, model_text, gmail_query, call_params, sessvars, gvars, rvars>>

\* lines 403-407: a line that begins with retell: or call: reaches
\* generate_phone_call_params
ReadCall ==
    /\ pc = "prompt"
    /\ queries < MaxQueries
    /\ \E typed \in InputLines :
        /\ RouteOf[typed] = "retell"
        /\ line' = Stripped[typed]
        /\ query' = Stripped[typed]
    /\ pc' = "gen_call"
    /\ queries' = queries + 1
    /\ FreshLine
    /\ UNCHANGED <<catalogue, connects, cleanups, exit_from, raised_by, gvars, rvars>>

\* lines 409-427, after generate_phone_call_params has returned p: where
\* chat_loop goes.  `"error" in p` raises TypeError on None and on a number;
\* on a list it is False and p.get raises AttributeError.
AfterParams(p) ==
    IF p.kind # "dict" THEN "raised"
    ELSE IF HasKey(p, "error") THEN "prompt"
    ELSE IF Get(p, "from_number") = "" \/ Get(p, "to_number") = "" \/ Get(p, "agent_id") = ""
         THEN "prompt"
         ELSE "exec_retell"

\* lines 407-427: generate_phone_call_params returns and chat_loop tests
\* what it returned
GeneratePhoneCallParams ==
    /\ pc = "gen_call"
    /\ \E t \in CallTexts \cup {ApiFailure} :
        /\ model_text' = t
        /\ call_params' = PhoneCallParams(t)
    /\ pc' = AfterParams(call_params')
    /\ raised_by' = IF pc' = "raised" THEN "call_params" ELSE raised_by
    /\ UNCHANGED <<query, messages, turn, response, bi, tool_results_content, resp, sent,
                   model_calls, dispatched, tool_calls, queries, varied,
                   events, toolvars, gmail_query, result,
                   connects, cleanups, exit_from, gvars, rvars>>
    /\ UNCHANGED line

\* lines 428-433: execute_retell_processor returns and its result is printed
ExecuteRetellProcessor ==
    /\ pc = "exec_retell"
    /\ \E o \in ProcessorOutcomes :
        result' = ProcessorResult("Retell", "Retell phone call processor", o)
    /\ pc' = "prompt"
    /\ UNCHANGED <<query, messages, turn, response, bi, tool_results_content, resp, sent,
                   model_calls, dispatched, tool_calls, queries, varied,
                   events, toolvars, model_text, gmail_query, call_params, sessvars, gvars, rvars>>

\* line 382: input raises (end of input, or the user's interrupt); chat_loop
\* catches nothing
InputFails ==
    /\ pc = "prompt"
    /\ pc' = "raised"
    /\ raised_by' = "input"
    /\ UNCHANGED <<query, messages, turn, response, bi, tool_results_content, resp, sent,
                   model_calls, dispatched, tool_calls, queries, varied,
                   events, toolvars, cmdvars, connects, cleanups, exit_from, gvars, rvars>>
    /\ UNCHANGED line

\* lines 382-385: the line read is quit or exit; chat_loop returns and main
\* runs cleanup
Quit ==
    /\ pc = "prompt"
    /\ \E typed \in InputLines :
        /\ RouteOf[typed] = "quit"
        /\ line' = Stripped[typed]
    /\ pc' = "quit"
    /\ UNCHANGED <<query, messages, turn, response, bi, tool_results_content,
                   resp, sent, model_calls, dispatched, tool_calls, queries, varied>>
    /\ UNCHANGED <<events, toolvars, cmdvars, connects, cleanups, exit_from, raised_by, gvars, rvars>>

----------------------------------------------------------------------------
(* process_query, lines 78-84: the tool list *)

\* variant: process_query reuses the list that connect fetched at line 49
ListTools_FetchedAtConnect ==
    /\ pc = "list_tools"
    /\ pc' = "model"
    /\ UNCHANGED <<query, messages, turn, response, bi, tool_results_content,
                   resp, sent, model_calls, dispatched, tool_calls, queries, varied>>
    /\ anthropic_tools' = AnthropicTools(Catalogues[1])
    /\ UNCHANGED <<catalogue, tools_sent, list_calls, events, cmdvars, sessvars, gvars, rvars>>

\* list_tools answers
ListTools ==
    /\ pc = "list_tools"
    /\ pc' = "model"
    /\ UNCHANGED <<query, messages, turn, response, bi, tool_results_content,
                   resp, sent, model_calls, dispatched, tool_calls, queries, varied>>
    /\ anthropic_tools' = AnthropicTools(catalogue)
    /\ list_calls' = list_calls + 1
    /\ UNCHANGED <<catalogue, tools_sent, events, cmdvars, sessvars, gvars, rvars>>

\* list_tools raises: nothing in process_query or chat_loop catches it
ListToolsFails ==
    /\ pc = "list_tools"
    /\ varied < MaxVaried
    /\ varied' = varied + 1
    /\ pc' = "raised"
    /\ UNCHANGED <<query, messages, turn, response, bi, tool_results_content,
                   resp, sent, model_calls, dispatched, tool_calls, queries>>
    /\ list_calls' = list_calls + 1
    /\ raised_by' = "list_tools"
    /\ UNCHANGED <<catalogue, anthropic_tools, tools_sent, events, cmdvars,
                   connects, cleanups, exit_from, gvars, rvars>>
    /\ UNCHANGED line

----------------------------------------------------------------------------
(* process_query, lines 93-115: one model call *)

AssistantTurn(r) == [role |-> "assistant", content |-> r.content]

\* variant: the block type is not tested, every block's text is joined
FinalText_AllBlocks(r) ==
    Join([i \in 1..Len(r.content) |-> r.content[i].text])

\* lines 111-115
FinalText(r) == Join(TextsOf(r.content))

\* variant: the branch tests whether the response holds a tool_use block
\* instead of testing its stop reason
ModelCall_ByContent ==
    /\ pc = "model"
    /\ \E r \in Responses(turn + 1) :
        /\ MayAnswer(r, DefaultResponse(turn + 1), turn + 1, varied)
        /\ varied' = varied + Cost(r, DefaultResponse(turn + 1))
        /\ response' = r
        /\ messages' = Append(messages, AssistantTurn(r))
        /\ IF \A i \in 1..Len(r.content) : r.content[i].type # "tool_use"
           THEN /\ resp' = FinalText(r)
                /\ pc' = "done"
                /\ UNCHANGED <<bi, tool_results_content>>
           ELSE /\ tool_results_content' = <<>>
                /\ bi' = 1
                /\ pc' = "dispatch"
                /\ UNCHANGED resp
    /\ dispatched' = <<>>
    /\ sent' = messages
    /\ model_calls' = model_calls + 1
    /\ UNCHANGED <<query, turn, tool_calls, queries>>
    /\ tools_sent' = tools_sent \cup {anthropic_tools}
    /\ events' = <<"model_call", "model_return">>
    /\ UNCHANGED <<catalogue, anthropic_tools, list_calls, cmdvars, sessvars, gvars, rvars>>

\* variant: the tool list is fetched and converted again before each model call
ModelCall_RefetchesTools ==
    /\ pc = "model"
    /\ \E r \in Responses(turn + 1) :
        /\ MayAnswer(r, DefaultResponse(turn + 1), turn + 1, varied)
        /\ varied' = varied + Cost(r, DefaultResponse(turn + 1))
        /\ response' = r
        /\ messages' = Append(messages, AssistantTurn(r))
        /\ IF r.stop_reason # "tool_use"
           THEN /\ resp' = FinalText(r)
                /\ pc' = "done"
                /\ UNCHANGED <<bi, tool_results_content>>
           ELSE /\ tool_results_content' = <<>>
                /\ bi' = 1
                /\ pc' = "dispatch"
                /\ UNCHANGED resp
    /\ dispatched' = <<>>
    /\ sent' = messages
    /\ model_calls' = model_calls + 1
    /\ UNCHANGED <<query, turn, tool_calls, queries>>
    /\ anthropic_tools' = AnthropicTools(catalogue)
    /\ list_calls' = list_calls + 1
    /\ tools_sent' = tools_sent \cup {anthropic_tools'}
    /\ events' = <<"model_call", "model_return">>
    /\ UNCHANGED <<catalogue, cmdvars, sessvars, gvars, rvars>>

\* variant: the budget is tested when the last response arrives, before its
\* tools are dispatched
ModelCall_StopsAtBudget ==
    /\ pc = "model"
    /\ \E r \in Responses(turn + 1) :
        /\ MayAnswer(r, DefaultResponse(turn + 1), turn + 1, varied)
        /\ varied' = varied + Cost(r, DefaultResponse(turn + 1))
        /\ response' = r
        /\ messages' = Append(messages, AssistantTurn(r))
        /\ IF r.stop_reason # "tool_use"
           THEN /\ resp' = FinalText(r)
                /\ pc' = "done"
                /\ UNCHANGED <<bi, tool_results_content>>
           ELSE IF turn + 1 = MAX_TURNS
           THEN /\ resp' = MaxTurnsSentinel
                /\ pc' = "max_turns"
                /\ UNCHANGED <<bi, tool_results_content>>
           ELSE /\ tool_results_content' = <<>>
                /\ bi' = 1
                /\ pc' = "dispatch"
                /\ UNCHANGED resp
    /\ dispatched' = <<>>
    /\ sent' = messages
    /\ model_calls' = model_calls + 1
    /\ UNCHANGED <<query, turn, tool_calls, queries>>
    /\ tools_sent' = tools_sent \cup {anthropic_tools}
    /\ events' = <<"model_call", "model_return">>
    /\ UNCHANGED <<catalogue, anthropic_tools, list_calls, cmdvars, sessvars, gvars, rvars>>

\* messages.create answers with r
ModelCall ==
    /\ pc = "model"
    /\ \E r \in Responses(turn + 1) :
        /\ MayAnswer(r, DefaultResponse(turn + 1), turn + 1, varied)
        /\ varied' = varied + Cost(r, DefaultResponse(turn + 1))
        /\ response' = r
        /\ messages' = Append(messages, AssistantTurn(r))
        /\ IF r.stop_reason # "tool_use"
           THEN /\ resp' = FinalText(r)
                /\ pc' = "done"
                /\ UNCHANGED <<bi, tool_results_content>>
           ELSE /\ tool_results_content' = <<>>
                /\ bi' = 1
                /\ pc' = "dispatch"
                /\ UNCHANGED resp
    /\ dispatched' = <<>>
    /\ sent' = messages
    /\ model_calls' = model_calls + 1
    /\ UNCHANGED <<query, turn, tool_calls, queries>>
    /\ tools_sent' = tools_sent \cup {anthropic_tools}
    /\ events' = <<"model_call", "model_return">>
    /\ UNCHANGED <<catalogue, anthropic_tools, list_calls, cmdvars, sessvars, gvars, rvars>>

ApiErrorText(e) == "Error calling Claude API: " \o e

\* variant: the failure is recorded in the transcript as an assistant turn
ModelCallFails_RecordsError ==
    /\ pc = "model"
    /\ MayAnswer("error", "response", turn + 1, varied)
    /\ varied' = varied + 1
    /\ \E e \in ApiErrors :
        /\ resp' = ApiErrorText(e)
        /\ messages' = Append(messages, [role |-> "assistant",
                                         content |-> <<TextBlock(ApiErrorText(e))>>])
    /\ pc' = "api_error"
    /\ dispatched' = <<>>
    /\ sent' = messages
    /\ model_calls' = model_calls + 1
    /\ UNCHANGED <<query, turn, response, bi, tool_results_content,
                   tool_calls, queries>>
    /\ tools_sent' = tools_sent \cup {anthropic_tools}
    /\ events' = <<"model_call", "model_return">>
    /\ UNCHANGED <<catalogue, anthropic_tools, list_calls, cmdvars, sessvars, gvars, rvars>>

\* messages.create raises e: lines 102-103
ModelCallFails ==
    /\ pc = "model"
    /\ MayAnswer("error", "response", turn + 1, varied)
    /\ varied' = varied + 1
    /\ \E e \in ApiErrors : resp' = ApiErrorText(e)
    /\ pc' = "api_error"
    /\ dispatched' = <<>>
    /\ sent' = messages
    /\ model_calls' = model_calls + 1
    /\ UNCHANGED <<query, messages, turn, response, bi, tool_results_content,
                   tool_calls, queries>>
    /\ tools_sent' = tools_sent \cup {anthropic_tools}
    /\ events' = <<"model_call", "model_return">>
    /\ UNCHANGED <<catalogue, anthropic_tools, list_calls, cmdvars, sessvars, gvars, rvars>>

----------------------------------------------------------------------------
(* process_query, lines 119-157: the block loop and the tool-result turn *)

\* variant: the joined text is handed back as it is, without the placeholder
ToolOutput_NoPlaceholder(o) ==
    IF o.raised
    THEN "Error executing tool: " \o o.error
    ELSE Join(TextsOf(o.content))

\* lines 136-143: the text handed back for one call_tool outcome
ToolOutput(o) ==
    IF o.raised
    THEN "Error executing tool: " \o o.error
    ELSE LET tool_output == Join(TextsOf(o.content))
         IN  IF tool_output = "" THEN NoTextOutput ELSE tool_output

\* variant: the entry is keyed by the tool's name instead of the call identifier
ToolResult_ByName(block, o) ==
    [type |-> "tool_result", tool_use_id |-> block.name, content |-> ToolOutput(o)]

ToolResult(block, o) ==
    [type |-> "tool_result", tool_use_id |-> block.id, content |-> ToolOutput(o)]

\* line 123: a block that is no tool_use is passed over
SkipBlock ==
    /\ pc = "dispatch"
    /\ bi <= Len(response.content)
    /\ response.content[bi].type # "tool_use"
    /\ bi' = bi + 1
    /\ UNCHANGED <<pc, query, messages, turn, response, tool_results_content,
                   resp, sent, model_calls, dispatched, tool_calls, queries, varied>>
    /\ UNCHANGED <<events, toolvars, cmdvars, sessvars, gvars, rvars>>

\* variant: the try/except encloses the block loop, so the first failing call
\* ends the loop and the blocks after it are never dispatched
CallTool_StopsAtError ==
    /\ pc = "dispatch"
    /\ bi <= Len(response.content)
    /\ response.content[bi].type = "tool_use"
    /\ \E o \in ToolOutcomes :
        /\ MayAnswer(o, DefaultToolOutcome, turn + 1, varied)
        /\ varied' = varied + Cost(o, DefaultToolOutcome)
        /\ tool_results_content' =
               Append(tool_results_content, ToolResult(response.content[bi], o))
        /\ dispatched' =
               Append(dispatched, [id |-> response.content[bi].id,
                               name |-> response.content[bi].name,
                               via |-> "remote", raised |-> o.raised])
        /\ bi' = IF o.raised THEN Len(response.content) + 1 ELSE bi + 1
    /\ tool_calls' = tool_calls + 1
    /\ UNCHANGED <<pc, query, messages, turn, response, resp, sent, model_calls, queries>>
    /\ events' = events \o <<"tool_call", "tool_return">>
    /\ UNCHANGED <<toolvars, cmdvars, sessvars, gvars, rvars>>

\* variant: no try/except around call_tool, a failing call leaves process_query
CallTool_Propagates ==
    /\ pc = "dispatch"
    /\ bi <= Len(response.content)
    /\ response.content[bi].type = "tool_use"
    /\ \E o \in ToolOutcomes :
        /\ MayAnswer(o, DefaultToolOutcome, turn + 1, varied)
        /\ varied' = varied + Cost(o, DefaultToolOutcome)
        /\ dispatched' =
               Append(dispatched, [id |-> response.content[bi].id,
                               name |-> response.content[bi].name,
                               via |-> "remote", raised |-> o.raised])
        /\ IF o.raised
           THEN /\ pc' = "raised"
                /\ UNCHANGED <<tool_results_content, bi>>
           ELSE /\ tool_results_content' =
                       Append(tool_results_content, ToolResult(response.content[bi], o))
                /\ bi' = bi + 1
                /\ UNCHANGED pc
    /\ tool_calls' = tool_calls + 1
    /\ UNCHANGED <<query, messages, turn, response, resp, sent, model_calls, queries>>
    /\ events' = events \o <<"tool_call", "tool_return">>
    /\ raised_by' = IF pc' = "raised" THEN "call_tool" ELSE raised_by
    /\ UNCHANGED <<toolvars, cmdvars, connects, cleanups, exit_from, gvars, rvars>>
    /\ UNCHANGED line

\* variant: a request that names a local tool is run by a local handler and
\* not sent to the remote session
CallTool_LocalFirst ==
    /\ pc = "dispatch"
    /\ bi <= Len(response.content)
    /\ response.content[bi].type = "tool_use"
    /\ \E o \in ToolOutcomes :
        /\ MayAnswer(o, DefaultToolOutcome, turn + 1, varied)
        /\ varied' = varied + Cost(o, DefaultToolOutcome)
        /\ tool_results_content' =
               Append(tool_results_content, ToolResult(response.content[bi], o))
        /\ dispatched' =
               Append(dispatched, [id |-> response.content[bi].id,
                               name |-> response.content[bi].name,
                               via |-> IF response.content[bi].name \in LocalToolNames
                                       THEN "local" ELSE "remote",
                               raised |-> o.raised])
    /\ tool_calls' = tool_calls + 1
    /\ bi' = bi + 1
    /\ UNCHANGED <<pc, query, messages, turn, response, resp, sent, model_calls, queries>>
    /\ events' = events \o <<"tool_call", "tool_return">>
    /\ UNCHANGED <<toolvars, cmdvars, sessvars, gvars, rvars>>

\* variant: the calls of the remaining blocks are issued together and
\* gathered (asyncio.gather over the tool_use blocks)
CallTool_Gathered ==
    /\ pc = "dispatch"
    /\ bi <= Len(response.content)
    /\ response.content[bi].type = "tool_use"
    /\ \E o \in ToolOutcomes :
        /\ MayAnswer(o, DefaultToolOutcome, turn + 1, varied)
        /\ varied' = varied + Cost(o, DefaultToolOutcome)
        /\ tool_results_content' =
               Append(tool_results_content, ToolResult(response.content[bi], o))
        /\ dispatched' =
               Append(dispatched, [id |-> response.content[bi].id,
                               name |-> response.content[bi].name,
                               via |-> "remote", raised |-> o.raised])
    /\ tool_calls' = tool_calls + 1
    /\ bi' = bi + 1
    /\ UNCHANGED <<pc, query, messages, turn, response, resp, sent, model_calls, queries>>
    /\ events' = IF Len(dispatched) = 0
                 THEN events \o [j \in 1..Cardinality({k \in 1..Len(response.content) :
                                          response.content[k].type = "tool_use"}) |-> "tool_call"]
                             \o <<"tool_return">>
                 ELSE Append(events, "tool_return")
    /\ UNCHANGED <<toolvars, cmdvars, sessvars, gvars, rvars>>

\* lines 124-151: one call_tool round trip and its tool_result entry
CallTool ==
    /\ pc = "dispatch"
    /\ bi <= Len(response.content)
    /\ response.content[bi].type = "tool_use"
    /\ \E o \in ToolOutcomes :
        /\ MayAnswer(o, DefaultToolOutcome, turn + 1, varied)
        /\ varied' = varied + Cost(o, DefaultToolOutcome)
        /\ tool_results_content' =
               Append(tool_results_content, ToolResult(response.content[bi], o))
        /\ dispatched' =
               Append(dispatched, [id |-> response.content[bi].id,
                               name |-> response.content[bi].name,
                               via |-> "remote", raised |-> o.raised])
    /\ tool_calls' = tool_calls + 1
    /\ bi' = bi + 1
    /\ UNCHANGED <<pc, query, messages, turn, response, resp, sent, model_calls, queries>>
    /\ events' = events \o <<"tool_call", "tool_return">>
    /\ UNCHANGED <<toolvars, cmdvars, sessvars, gvars, rvars>>

ToolResultTurn(results) == [role |-> "user", content |-> results]

\* variant: `while True` in place of the bounded for loop
AppendToolResults_Unbounded ==
    /\ pc = "dispatch"
    /\ bi > Len(response.content)
    /\ messages' = Append(messages, ToolResultTurn(tool_results_content))
    /\ turn' = turn + 1
    /\ pc' = "model"
    /\ UNCHANGED <<query, response, bi, tool_results_content, resp, sent, model_calls,
                   dispatched, tool_calls, queries, varied>>
    /\ events' = Append(events, "append")
    /\ UNCHANGED <<toolvars, cmdvars, sessvars, gvars, rvars>>

\* variant: the tool-result turn is appended only when it holds an entry
AppendToolResults_SkipsEmpty ==
    /\ pc = "dispatch"
    /\ bi > Len(response.content)
    /\ messages' = IF tool_results_content = <<>> THEN messages
                   ELSE Append(messages, ToolResultTurn(tool_results_content))
    /\ turn' = turn + 1
    /\ IF turn + 1 < MAX_TURNS
       THEN /\ pc' = "model"
            /\ UNCHANGED resp
       ELSE /\ pc' = "max_turns"
            /\ resp' = MaxTurnsSentinel
    /\ UNCHANGED <<query, response, bi, tool_results_content, sent, model_calls,
                   dispatched, tool_calls, queries, varied>>
    /\ events' = Append(events, "append")
    /\ UNCHANGED <<toolvars, cmdvars, sessvars, gvars, rvars>>

\* variant: the tool-result turn is stored over the last turn of the transcript
AppendToolResults_ReplacesLast ==
    /\ pc = "dispatch"
    /\ bi > Len(response.content)
    /\ messages' = [messages EXCEPT ![Len(messages)] = ToolResultTurn(tool_results_content)]
    /\ turn' = turn + 1
    /\ IF turn + 1 < MAX_TURNS
       THEN /\ pc' = "model"
            /\ UNCHANGED resp
       ELSE /\ pc' = "max_turns"
            /\ resp' = MaxTurnsSentinel
    /\ UNCHANGED <<query, response, bi, tool_results_content, sent, model_calls,
                   dispatched, tool_calls, queries, varied>>
    /\ events' = Append(events, "append")
    /\ UNCHANGED <<toolvars, cmdvars, sessvars, gvars, rvars>>

\* variant: the loop allows one cycle more than MAX_TURNS
AppendToolResults_OneMore ==
    /\ pc = "dispatch"
    /\ bi > Len(response.content)
    /\ messages' = Append(messages, ToolResultTurn(tool_results_content))
    /\ turn' = turn + 1
    /\ IF turn + 1 <= MAX_TURNS
       THEN /\ pc' = "model"
            /\ UNCHANGED resp
       ELSE /\ pc' = "max_turns"
            /\ resp' = MaxTurnsSentinel
    /\ UNCHANGED <<query, response, bi, tool_results_content, sent, model_calls,
                   dispatched, tool_calls, queries, varied>>
    /\ events' = Append(events, "append")
    /\ UNCHANGED <<toolvars, cmdvars, sessvars, gvars, rvars>>

\* lines 154-157, the end of the loop body, and line 161.  `turn` counts the
\* cycles completed, so range(MAX_TURNS) is exhausted when it reaches MAX_TURNS
AppendToolResults ==
    /\ pc = "dispatch"
    /\ bi > Len(response.content)
    /\ messages' = Append(messages, ToolResultTurn(tool_results_content))
    /\ turn' = turn + 1
    /\ IF turn + 1 < MAX_TURNS
       THEN /\ pc' = "model"
            /\ UNCHANGED resp
       ELSE /\ pc' = "max_turns"
            /\ resp' = MaxTurnsSentinel
    /\ UNCHANGED <<query, response, bi, tool_results_content, sent, model_calls,
                   dispatched, tool_calls, queries, varied>>
    /\ events' = Append(events, "append")
    /\ UNCHANGED <<toolvars, cmdvars, sessvars, gvars, rvars>>

\* chat_loop line 437: the returned string is printed and the loop reads on
PrintResponse ==
    /\ pc \in {"done", "api_error", "max_turns"}
    /\ pc' = "prompt"
    /\ UNCHANGED <<query, messages, turn, response, bi, tool_results_content,
                   resp, sent, model_calls, dispatched, tool_calls, queries, varied>>
    /\ UNCHANGED <<events, toolvars, cmdvars, sessvars, gvars, rvars>>

----------------------------------------------------------------------------
(* gmail_processor/main.py, lines 173-207: the search for messages *)

\* line 179
max_results == 100

\* line 185: the most the Gmail API puts on one page
GmailPageMax == 500

\* the largest number of messages that match the query
MaxMatching == 650

Matches == {0, 1, max_results - 1, max_results, max_results + 1, MaxMatching}

\* the most messages the service puts on one page, whatever number is asked
PageSizes == {1, 7, 40, GmailPageMax}

Min(a, b) == IF a <= b THEN a ELSE b

\* the client while execute_gmail_processor waits for the subprocess it
\* started for the query generated from the model's text t
ClientAtGmailProcessor(t) ==
    /\ pc = "exec_gmail"
    /\ query \in GmailLines
    /\ model_text = t
    /\ gmail_query = GmailQuery(t)
    /\ queries = 1
    /\ connects = 1
    /\ messages = <<>>
    /\ turn = 0
    /\ response = NoResponse
    /\ bi = 0
    /\ tool_results_content = <<>>
    /\ resp = ""
    /\ sent = <<>>
    /\ model_calls = 0
    /\ dispatched = <<>>
    /\ tool_calls = 0
    /\ varied = 0
    /\ events = <<>>
    /\ catalogue = Catalogues[1]
    /\ anthropic_tools = <<>>
    /\ tools_sent = {}
    /\ list_calls = 0
    /\ call_params = NoParams
    /\ result = ""
    /\ cleanups = 0
    /\ exit_from = ""
    /\ raised_by = ""
    /\ line = query

\* main.py line 25
DEFAULT_GMAIL_QUERY == "subject:\"Rate Confirmation for order #\" has:attachment from:@scotlynn.com"

\* what there is to find for lines 86-115 and 137-162: no credentials
\* string anywhere, a local file in neither format, a string that does not
\* load as credentials, a string that does
CredsStates == {"absent", "bad_local_format", "unparsable", "valid"}

\* the gmailQuery of the actor input or of the local file, "" when neither has one
ConfiguredQueries == {"", "is:unread"}

\* lines 346-350: parse_args on [--query, x].  argparse takes a string that
\* begins with - and holds no space for an option, and exits with a usage
\* error; any other string, the empty one too, is the value of --query
ParsedQuery(x) ==
    IF StartsWith(x, "-") /\ Len(x) > 1 /\ ~Contains(x, " ")
    THEN [ok |-> FALSE, query |-> ""]
    ELSE [ok |-> TRUE, query |-> x]

\* lines 119-123: the first source that is not empty
SelectQuery(arg, configured) ==
    IF arg # "" THEN arg
    ELSE IF configured # "" THEN configured
    ELSE DEFAULT_GMAIL_QUERY

\* the subprocess of execute_gmail_processor starts (client.py 226:
\* --query gmail_query).  The service holds `matching` messages for the
\* query, most recent first, the k-th of them having id k
GmailInit ==
    /\ \E t \in GmailTexts :
          /\ ~StartsWith(GmailQuery(t), "Error")
          /\ ClientAtGmailProcessor(t)
    /\ g_pc = "args"
    /\ matching \in Matches
    /\ page_size \in PageSizes
    /\ all_messages = <<>>
    /\ page_token = 0
    /\ found = <<>>
    /\ requests = <<>>
    /\ g_creds \in CredsStates
    /\ g_configured \in ConfiguredQueries
    /\ search_query = ""
    /\ service_built = 0
    /\ RetellIdle

\* lines 346-359 and 82-162: the arguments, the input, the credentials
\* string (return at 109 or 115 when there is none), the query and the MIME
\* types, the credentials (return at 162 when they do not load)
GmailConfigure ==
    /\ g_pc = "args"
    /\ IF ~ParsedQuery(gmail_query).ok
       THEN g_pc' = "usage_error" /\ UNCHANGED search_query
       ELSE IF g_creds \in {"absent", "bad_local_format"}
       THEN g_pc' = "config_error" /\ UNCHANGED search_query
       ELSE /\ search_query' = SelectQuery(ParsedQuery(gmail_query).query, g_configured)
            /\ g_pc' = IF g_creds = "valid" THEN "build" ELSE "config_error"
    /\ UNCHANGED <<matching, page_size, all_messages, page_token, found, requests,
                   g_creds, g_configured, service_built,
                   loopvars, events, toolvars, cmdvars, sessvars, rvars>>

\* lines 165-168: build returns the service
BuildService ==
    /\ g_pc = "build"
    /\ g_pc' = "search"
    /\ service_built' = service_built + 1
    /\ UNCHANGED <<matching, page_size, all_messages, page_token, found, requests,
                   g_creds, g_configured, search_query,
                   loopvars, events, toolvars, cmdvars, sessvars, rvars>>

\* lines 169-171: build raises and main returns
BuildServiceFails ==
    /\ g_pc = "build"
    /\ g_pc' = "failed"
    /\ UNCHANGED <<matching, page_size, all_messages, page_token, found, requests,
                   g_creds, g_configured, search_query, service_built,
                   loopvars, events, toolvars, cmdvars, sessvars, rvars>>

\* messages().list answers a request for at most n messages from the
\* position the page token gives (0: no token, the first page): the page and
\* the next page token (0: none)
ListResponse(n, token) ==
    LET k == Min(Min(n, page_size), matching - token)
    IN  [messages |-> [i \in 1..k |-> token + i],
         nextPageToken |-> IF token + k < matching THEN token + k ELSE 0]

\* variant: every page is asked for the API maximum
ListPage_AsksFullPage ==
    /\ g_pc = "search"
    /\ LET asked == GmailPageMax
           response_ == ListResponse(asked, page_token)
           collected == all_messages \o response_.messages
       IN  /\ requests' = Append(requests, [q |-> search_query,
                                            maxResults |-> asked, pageToken |-> page_token,
                                            collected |-> Len(all_messages),
                                            nextPageToken |-> response_.nextPageToken])
           /\ all_messages' = collected
           /\ page_token' = response_.nextPageToken
           /\ IF response_.nextPageToken = 0 \/ Len(collected) >= max_results
              THEN /\ found' = SubSeq(collected, 1, Min(max_results, Len(collected)))
                   /\ g_pc' = "found"
              ELSE /\ g_pc' = "search"
                   /\ UNCHANGED found
    /\ UNCHANGED <<matching, page_size, g_creds, g_configured, search_query, service_built,
                   loopvars, events, toolvars, cmdvars, sessvars, rvars>>

\* variant: the loop ends only on a page without a token
ListPage_IgnoresCap ==
    /\ g_pc = "search"
    /\ LET asked == GmailPageMax
           response_ == ListResponse(asked, page_token)
           collected == all_messages \o response_.messages
       IN  /\ requests' = Append(requests, [q |-> search_query,
                                            maxResults |-> asked, pageToken |-> page_token,
                                            collected |-> Len(all_messages),
                                            nextPageToken |-> response_.nextPageToken])
           /\ all_messages' = collected
           /\ page_token' = response_.nextPageToken
           /\ IF response_.nextPageToken = 0
              THEN /\ found' = SubSeq(collected, 1, Min(max_results, Len(collected)))
                   /\ g_pc' = "found"
              ELSE /\ g_pc' = "search"
                   /\ UNCHANGED found
    /\ UNCHANGED <<matching, page_size, g_creds, g_configured, search_query, service_built,
                   loopvars, events, toolvars, cmdvars, sessvars, rvars>>

\* lines 181-200: one pass of the while loop, a list request and its
\* answer; when the loop ends, line 203 cuts the list to max_results
ListPage ==
    /\ g_pc = "search"
    /\ LET asked == Min(GmailPageMax, max_results - Len(all_messages))
           response_ == ListResponse(asked, page_token)
           collected == all_messages \o response_.messages
       IN  /\ requests' = Append(requests, [q |-> search_query,
                                            maxResults |-> asked, pageToken |-> page_token,
                                            collected |-> Len(all_messages),
                                            nextPageToken |-> response_.nextPageToken])
           /\ all_messages' = collected
           /\ page_token' = response_.nextPageToken
           /\ IF response_.nextPageToken = 0 \/ Len(collected) >= max_results
              THEN /\ found' = SubSeq(collected, 1, Min(max_results, Len(collected)))
                   /\ g_pc' = "found"
              ELSE /\ g_pc' = "search"
                   /\ UNCHANGED found
    /\ UNCHANGED <<matching, page_size, g_creds, g_configured, search_query, service_built,
                   loopvars, events, toolvars, cmdvars, sessvars, rvars>>

\* lines 206-208: a list request raises HttpError and main returns
SearchFails ==
    /\ g_pc = "search"
    /\ g_pc' = "failed"
    /\ UNCHANGED <<matching, page_size, all_messages, page_token, found, requests,
                   g_creds, g_configured, search_query, service_built,
                   loopvars, events, toolvars, cmdvars, sessvars, rvars>>

GmailNext ==
    \/ GmailConfigure
    \/ BuildService
    \/ BuildServiceFails
    \/ ListPage
    \/ SearchFails

GmailSpec == GmailInit /\ [][GmailNext]_vars

----------------------------------------------------------------------------
(* Properties *)

\* the call identifiers of the tool_use blocks of a content list, in order
RECURSIVE ToolUseIds(_)
ToolUseIds(blocks) ==
    IF Len(blocks) = 0 THEN <<>>
    ELSE IF blocks[1].type = "tool_use"
         THEN <<blocks[1].id>> \o ToolUseIds(Tail(blocks))
         ELSE ToolUseIds(Tail(blocks))

\* the call identifiers answered by a list of tool_result entries, in order
ResultIds(results) == [j \in 1..Len(results) |-> results[j].tool_use_id]

DispatchedIds == [j \in 1..Len(dispatched) |-> dispatched[j].id]

SomeRaised(d) == \E j \in 1..Len(d) : d[j].raised

\* a cycle of this run has just been completed by the append of its tool-result turn
CycleCompleted == pc \in {"model", "max_turns"} /\ turn > 0

Last(s) == s[Len(s)]

\* C1: when a cycle with stop reason tool_use completes, the turn appended
\* after the assistant turn is one user-role turn whose entries are all
\* tool_result entries, one per tool_use block of the response, carrying the
\* blocks' call identifiers in the order of the blocks.
C1_OneResultPerToolUse ==
    CycleCompleted =>
        /\ response.stop_reason = "tool_use"
        /\ Len(messages) >= 2
        /\ messages[Len(messages) - 1] = [role |-> "assistant", content |-> response.content]
        /\ Last(messages).role = "user"
        /\ \A j \in 1..Len(Last(messages).content) :
               Last(messages).content[j].type = "tool_result"
        /\ ResultIds(Last(messages).content) = ToolUseIds(response.content)
        /\ Len(Last(messages).content)
             = Cardinality({i \in 1..Len(response.content) :
                               response.content[i].type = "tool_use"})

\* a completed cycle whose response mixes three tool_use blocks with text blocks
C1_Witness ==
    /\ CycleCompleted
    /\ Len(response.content) = 5
    /\ Len(Last(messages).content) = 3
    /\ Last(messages).content[3].tool_use_id = response.content[5].id

\* C3: a failing call_tool neither stops nor skips the other calls of its
\* cycle: during the block loop every tool_use block passed so far has been
\* dispatched and has its own entry, at the end of the loop all of them have,
\* and the entry of a failed call carries that call's identifier and the
\* error text.
C3_PartialFailureIsolation ==
    /\ pc = "dispatch" =>
          /\ DispatchedIds = ToolUseIds(SubSeq(response.content, 1, bi - 1))
          /\ ResultIds(tool_results_content) = DispatchedIds
          /\ \A j \in 1..Len(dispatched) :
                dispatched[j].raised =>
                    tool_results_content[j].content = "Error executing tool: boom"
    /\ CycleCompleted =>
          /\ DispatchedIds = ToolUseIds(response.content)
          /\ ResultIds(Last(messages).content) = DispatchedIds
          /\ \A j \in 1..Len(dispatched) :
                dispatched[j].raised =>
                    Last(messages).content[j].content = "Error executing tool: boom"

\* the first call of a cycle failed, the second was dispatched all the same,
\* and the cycle's turn holds the error entry and the second call's result
C3_Witness ==
    /\ CycleCompleted
    /\ Len(dispatched) = 2
    /\ dispatched[1].raised
    /\ ~dispatched[2].raised
    /\ Last(messages).content[1].content = "Error executing tool: boom"
    /\ Last(messages).content[2] =
          [type |-> "tool_result", tool_use_id |-> response.content[2].id, content |-> "r"]

\* the entries of a tool-result turn that report a failed call
ErrorEntries(t) ==
    {j \in 1..Len(t.content) : t.content[j].content = "Error executing tool: boom"}

\* C4: a failing call_tool does not end the run.  The block loop is left
\* only by the append of the tool-result turn, towards the next model call or,
\* when the cycle budget is used up, towards the maximum-turns return; and the
\* model call that follows a cycle with failed calls is passed a transcript
\* whose last turn holds the error text under each failed call's identifier.
C4_ToolFailureDoesNotEndRun ==
    [][ /\ pc = "dispatch" =>
              \/ pc' = "dispatch"
              \/ pc' = "model" /\ turn' < MAX_TURNS
              \/ pc' = "max_turns" /\ turn' = MAX_TURNS
        /\ (pc = "model" /\ model_calls' = model_calls + 1 /\ SomeRaised(dispatched)) =>
              /\ Last(sent').role = "user"
              /\ \A j \in 1..Len(dispatched) :
                    dispatched[j].raised =>
                        Last(sent').content[j] =
                            [type |-> "tool_result", tool_use_id |-> dispatched[j].id,
                             content |-> "Error executing tool: boom"]
      ]_vars

\* a second model call was made with a transcript ending in a tool-result turn
\* that holds an error entry
C4_Witness ==
    /\ model_calls >= 2
    /\ pc = "dispatch"
    /\ Last(sent).role = "user"
    /\ ErrorEntries(Last(sent)) # {}

\* C5: a response whose stop reason is not tool_use ends the run at once: the
\* value returned is the texts of its text blocks joined by newlines, no tool
\* was dispatched in that cycle, the transcript gained the assistant turn
\* only, and a run ended by its first response made one model call and no
\* tool call.
C5_FinalAnswer ==
    (response # NoResponse /\ response.stop_reason # "tool_use") =>
        /\ pc \in {"done", "prompt", "quit", "raised", "exited"}
        /\ dispatched = <<>>
        /\ messages = Append(sent, [role |-> "assistant", content |-> response.content])
        /\ model_calls = turn + 1
        /\ model_calls = 1 => tool_calls = 0
        /\ response.content = <<TextBlock("a"), OtherBlock, TextBlock("b")>>
              => resp = "a\nb"
        /\ response.content = <<>> => resp = ""
        /\ (Len(response.content) = 2 /\ response.content[2].type = "tool_use")
              => resp = "a"

\* the first response is plain text: returned after one model call, no tool call
C5_Witness ==
    /\ pc = "done"
    /\ model_calls = 1
    /\ tool_calls = 0
    /\ resp = "a\nb"

\* C2: under the assumption that every list_tools, model and tool call
\* answers, a run that has entered the loop returns: with the model's final
\* text, with the model-call error text, or with the maximum-turns sentinel,
\* after at most MAX_TURNS model calls and MAX_TURNS cycles.
C2_ProcessQueryTerminates ==
    /\ [](/\ turn <= MAX_TURNS
          /\ model_calls <= MAX_TURNS
          /\ pc = "max_turns" => (turn = MAX_TURNS /\ resp = "Error: Maximum tool turns reached."))
    /\ (pc \in {"model", "dispatch"}) ~> (pc \in {"done", "api_error", "max_turns"})

\* the run came back with the sentinel after fifteen tool-use responses
C2_Witness ==
    /\ pc = "max_turns"
    /\ model_calls = 15
    /\ resp = "Error: Maximum tool turns reached."

\* the number of turns process_query starts the transcript with
InitialTurns == IF messages[1].role = "system" THEN 2 ELSE 1

\* the assistant turn at position i is immediately followed by exactly one
\* turn that answers each of its tool_use blocks once, in order
Answered(i) ==
    /\ i < Len(messages)
    /\ messages[i + 1].role = "user"
    /\ \A j \in 1..Len(messages[i + 1].content) :
          messages[i + 1].content[j].type = "tool_result"
    /\ ResultIds(messages[i + 1].content) = ToolUseIds(messages[i].content)
    /\ i + 2 <= Len(messages) => messages[i + 2].role = "assistant"

\* C6 as stated: outside the block loop, every assistant turn that holds a
\* tool_use block is immediately followed by the turn with its results.
C6_EveryToolUseAnswered ==
    pc # "dispatch" =>
        \A i \in 1..Len(messages) :
            (messages[i].role = "assistant" /\ ToolUseIds(messages[i].content) # <<>>)
                => Answered(i)

\* C6 amended: every assistant turn is immediately followed by exactly one
\* turn answering each of its tool_use blocks once, unless it is the last
\* turn and either its block loop is still running or its response had a
\* stop reason other than tool_use, which ended the run with the blocks of
\* that turn undispatched.
C6_ToolUseTurnsAnswered ==
    \A i \in 1..Len(messages) :
        messages[i].role = "assistant" =>
            \/ Answered(i)
            \/ /\ i = Len(messages)
               /\ pc = "dispatch"
               /\ response.stop_reason = "tool_use"
            \/ /\ i = Len(messages)
               /\ pc \in {"done", "prompt", "quit", "raised", "exited"}
               /\ response.stop_reason # "tool_use"
               /\ dispatched = <<>>

\* a run ended by a max_tokens response holding a tool_use block, after an
\* earlier tool-use cycle that was answered
C6_Witness ==
    /\ pc = "done"
    /\ Len(messages) >= 4
    /\ ToolUseIds(Last(messages).content) # <<>>
    /\ Answered(Len(messages) - 2)

\* C7: a failing model call makes process_query return the error text; the
\* transcript is the one that was passed to the failing call, with nothing
\* appended, and the failing call was the only call of its cycle.
C7_ModelCallFailure ==
    pc = "api_error" =>
        /\ resp = "Error calling Claude API: overloaded"
        /\ messages = sent
        /\ Len(messages) = InitialTurns + 2 * turn
        /\ model_calls = turn + 1

\* the model call of a later cycle failed
C7_Witness ==
    /\ pc = "api_error"
    /\ turn >= 1
    /\ Len(messages) >= 3
    /\ Last(messages).role = "user"

\* C8: within one process_query call every step leaves the transcript as it
\* is or appends to it.
C8_AppendOnly ==
    [][queries' = queries => IsPrefix(messages, messages')]_vars

\* a transcript that has grown over two cycles
C8_Witness ==
    /\ pc = "model"
    /\ turn = 2
    /\ Len(messages) = InitialTurns + 4

RunState ==
    CASE pc = "model" -> "AWAITING_MODEL"
      [] pc = "dispatch" -> "DISPATCHING_TOOLS"
      [] pc = "done" -> "DONE"
      [] pc \in {"api_error", "max_turns"} -> "FAILED"
      [] OTHER -> "NONE"

\* C10: the run moves between the four states by these transitions only:
\* AWAITING_MODEL to DONE on a stop reason other than tool_use, to
\* DISPATCHING_TOOLS on tool_use, to FAILED on a model-call error;
\* DISPATCHING_TOOLS to AWAITING_MODEL, or to FAILED when the budget is used
\* up, with the turn holding all results of the cycle appended; DONE and
\* FAILED are left only towards the prompt, without a further model call or
\* tool call.  (While the run awaits the model the remote catalogue may
\* change; that is a step of the environment and moves nothing of the run.)
C10_StateMachine ==
    [][ /\ RunState = "AWAITING_MODEL" =>
              \/ /\ RunState' = "DONE"
                 /\ response'.stop_reason # "tool_use"
                 /\ model_calls' = model_calls + 1
              \/ /\ RunState' = "DISPATCHING_TOOLS"
                 /\ response'.stop_reason = "tool_use"
                 /\ model_calls' = model_calls + 1
              \/ /\ RunState' = "FAILED"
                 /\ pc' = "api_error"
                 /\ response' = response
              \/ /\ RunState' = "AWAITING_MODEL"
                 /\ catalogue' # catalogue
                 /\ UNCHANGED <<messages, response, model_calls, tool_calls>>
        /\ RunState = "DISPATCHING_TOOLS" =>
              \/ /\ RunState' = "DISPATCHING_TOOLS"
                 /\ messages' = messages
              \/ /\ RunState' \in {"AWAITING_MODEL", "FAILED"}
                 /\ RunState' = "FAILED" <=> turn' = MAX_TURNS
                 /\ RunState' = "FAILED" => pc' = "max_turns"
                 /\ Len(messages') = Len(messages) + 1
                 /\ ResultIds(Last(messages').content) = ToolUseIds(response.content)
        /\ RunState \in {"DONE", "FAILED"} =>
              /\ RunState' = "NONE"
              /\ pc' = "prompt"
              /\ model_calls' = model_calls
              /\ tool_calls' = tool_calls
        /\ (RunState = "NONE" /\ RunState' # "NONE") =>
              /\ RunState' = "AWAITING_MODEL"
              /\ model_calls' = 0
      ]_vars

\* a run that went through all four states: cycles of dispatching, then FAILED
\* by exhaustion of the budget
C10_Witness ==
    /\ RunState = "FAILED"
    /\ pc = "max_turns"
    /\ turn = MAX_TURNS
    /\ tool_calls = 2 * MAX_TURNS

(* C11, C12: the tool list of a run *)

\* the remote side offers now something else than the list of this run holds
CatalogueMoved == anthropic_tools # AnthropicTools(catalogue)

\* C11: within one call of process_query the tool list is assembled exactly
\* once, before the first model call, and every model call of the run is
\* passed that same list, whatever the remote catalogue has become since.
C11_ToolListAssembledOnce ==
    /\ list_calls <= 1
    /\ model_calls >= 1 =>
          /\ list_calls = 1
          /\ tools_sent = {anthropic_tools}
          /\ anthropic_tools \in {AnthropicTools(Catalogues[1]), AnthropicTools(Catalogues[2])}

\* a run has used up its turns, and the remote catalogue moved away from the
\* list of the run before one of its model calls
C11_Witness ==
    /\ pc = "max_turns"
    /\ model_calls = MAX_TURNS
    /\ CatalogueMoved
    /\ tools_sent = {anthropic_tools}

\* C12 as stated: list_tools is called before every cycle's model call, so
\* a run has fetched the catalogue as many times as it has called the model,
\* and the list of a model call is the catalogue of that moment.
C12_FetchedEveryCycle ==
    [][model_calls' = model_calls + 1 =>
          /\ list_calls' = model_calls'
          /\ anthropic_tools' = AnthropicTools(catalogue)]_vars

\* C12, amended: list_tools is called once per call of process_query, before
\* the first cycle's model call; no model call of a later cycle fetches
\* again, each is given the list of that one fetch.
C12_FetchedOncePerRun ==
    [][model_calls' = model_calls + 1 =>
          /\ list_calls = 1
          /\ list_calls' = 1
          /\ anthropic_tools' = anthropic_tools]_vars

\* the second cycle's model call has asked for tools with a list fetched once,
\* which the remote side no longer offers
C12_Witness ==
    /\ pc = "dispatch"
    /\ model_calls = 2
    /\ list_calls = 1
    /\ CatalogueMoved

(* C13: the content of a tool result *)

\* the tool_result entries of the transcript and of the turn being assembled
ToolResultEntries ==
    UNION { {messages[i].content[j] : j \in 1..Len(messages[i].content)} :
              i \in {k \in 1..Len(messages) :
                        k > InitialTurns /\ messages[k].role = "user"} }
    \cup {tool_results_content[j] : j \in 1..Len(tool_results_content)}

\* C13: the content of every tool_result entry is non-empty text: a call that
\* returned no text (no item of type text, or empty text only) has the fixed
\* placeholder, a call that raised has the error text.
C13_NoEmptyToolResult ==
    /\ \A e \in ToolResultEntries : e.type = "tool_result" /\ e.content # ""
    /\ pc = "dispatch" =>
          \A j \in 1..Len(dispatched) :
              dispatched[j].raised =>
                  tool_results_content[j].content = "Error executing tool: boom"

\* the transcript holds the placeholder for a call that returned no text
C13_Witness ==
    /\ pc = "model"
    /\ \E e \in ToolResultEntries : e.content = NoTextOutput

(* C14: where a tool call is executed *)

\* the tool_use blocks among the first n blocks of the response
RECURSIVE ToolUsesUpTo(_, _)
ToolUsesUpTo(blocks, n) ==
    IF n = 0 THEN <<>>
    ELSE IF blocks[n].type = "tool_use"
         THEN Append(ToolUsesUpTo(blocks, n - 1), blocks[n])
         ELSE ToolUsesUpTo(blocks, n - 1)

RECURSIVE InFlight(_, _)
InFlight(log, n) ==
    IF n = 0 THEN 0
    ELSE InFlight(log, n - 1)
         + (IF log[n] \in {"model_call", "tool_call"} THEN 1
            ELSE IF log[n] \in {"model_return", "tool_return"} THEN -1
            ELSE 0)

\* the events of a cycle in which k tool calls have been made so far
RECURSIVE CycleLog(_)
CycleLog(k) ==
    IF k = 0 THEN <<"model_call", "model_return">>
    ELSE CycleLog(k - 1) \o <<"tool_call", "tool_return">>

\* C15: at most one model call or tool call is in flight at any moment; a
\* cycle is a model call, then the tool calls one after another in block
\* order, then the tool-result turn appended; and the model call of the next
\* cycle is issued only when that turn is in the transcript.
C15_StrictlySequential ==
    /\ \A n \in 0..Len(events) : InFlight(events, n) \in {0, 1}
    /\ pc = "dispatch" =>
          /\ events = CycleLog(Len(dispatched))
          /\ DispatchedIds = ResultIds(tool_results_content)
          /\ IsPrefix(DispatchedIds, ToolUseIds(response.content))
    /\ (pc = "model" /\ turn > 0) =>
          /\ events = Append(CycleLog(Len(dispatched)), "append")
          /\ Last(messages) = ToolResultTurn(tool_results_content)
          /\ DispatchedIds = ToolUseIds(response.content)
          /\ model_calls = turn

\* a run with one cycle of tool calls: a model call, the two tool calls of
\* the response, one tool-result turn appended, a second model call answering
\* with text, return
C15_Witness ==
    /\ pc = "done"
    /\ model_calls = 2
    /\ tool_calls = 2
    /\ Len(messages) = InitialTurns + 3
    /\ Len(messages[InitialTurns + 2].content) = 2

(* C16: the connection as a scoped resource *)

\* main has not ended yet and the chat loop may be running
InSession == pc \notin {"start", "connect_failed", "exited"}

\* C16: connect is called once per session, before the chat loop; cleanup
\* has run exactly once when main has ended, whichever way the try block was
\* left (quit, an exception in connect, an exception in the chat loop), and
\* has not run at any earlier moment.
C16_ScopedConnection ==
    /\ connects = IF pc = "start" THEN 0 ELSE 1
    /\ cleanups = IF pc = "exited" THEN 1 ELSE 0
    /\ InSession => cleanups = 0 /\ connects = 1
    /\ pc = "exited" => exit_from \in {"quit", "raised", "connect_failed"}

\* main has ended on an exception that left the chat loop, after cleanup
C16_Witness ==
    /\ pc = "exited"
    /\ exit_from = "raised"
    /\ raised_by = "list_tools"
    /\ cleanups = 1
    /\ connects = 1

(* C17, C18: the translators *)

\* C17: the translate step returns the unwrapped payload whenever the
\* model's text is the payload wrapped in markdown fencing or in surrounding
\* quotes: generate_gmail_query returns the bare query, also for a query
\* fenced on a single line, and generate_phone_call_params parses the bare
\* JSON text.
C17_UnwrapsPayload ==
    /\ (query \in GmailLines /\ model_text.kind = "text") =>
          gmail_query = model_text.payload
    /\ (query \in CallLines /\ model_text.kind = "text") =>
          call_params = ParamsOfJson(model_text.payload)

\* the model's text is a parameter object: JSON that parses to an object
IsParamObject(t) ==
    /\ t.kind = "text"
    /\ t.payload \in DOMAIN JsonDocs
    /\ JsonDocs[t.payload].kind = "dict"

\* C18: generate_phone_call_params never raises and its caller can always
\* tell a failure: what it returns is an object; when the model's text is not
\* a parameter object, or the model call failed, the object carries an error,
\* and for an unparsable text also the raw text of the response; so the test
\* chat_loop makes on it never raises.
C18_FailureIsErrorObject ==
    (query \in CallLines /\ model_text # NoText) =>
        /\ call_params.kind = "dict"
        /\ raised_by # "call_params"
        /\ ~IsParamObject(model_text) => HasKey(call_params, "error")
        /\ (model_text.kind = "text" /\ model_text.payload \notin DOMAIN JsonDocs) =>
              Get(call_params, "raw") = model_text.raw

(* C19: the Gmail search *)

\* C19: the search returns the first min(cap, matching) message ids in the
\* order the service lists them; every request after the first carries the
\* token the previous page came with, and requests go on until the cap is
\* reached or a page comes without a token; no request asks for more than
\* min(500, cap - collected); 650 matches and a cap of 100 give 100.
C19_SearchReturnsCap ==
    /\ \A i \in 1..Len(requests) :
          /\ requests[i].maxResults <= Min(GmailPageMax, max_results - requests[i].collected)
          /\ requests[i].maxResults >= 1
          /\ requests[i].pageToken = IF i = 1 THEN 0 ELSE requests[i - 1].nextPageToken
          /\ i < Len(requests) =>
                /\ requests[i].nextPageToken # 0
                /\ requests[i + 1].collected < max_results
    /\ g_pc = "search" /\ requests # <<>> =>
          /\ Last(requests).nextPageToken # 0
          /\ Len(all_messages) < max_results
    /\ g_pc = "found" =>
          /\ found = [i \in 1..Min(max_results, matching) |-> i]
          /\ Last(requests).nextPageToken = 0 \/ Len(all_messages) >= max_results
          /\ matching = 650 => Len(found) = 100

\* 650 messages match, the service pages by less than the cap, and the search
\* has returned 100 of them after several pages
C19_Witness ==
    /\ g_pc = "found"
    /\ matching >= 650
    /\ Len(requests) > 1
    /\ Len(found) = max_results

(* C20: failures of external calls *)

\* the calls to other processes and services made while a chat line is served
ExternalCalls == {"model", "list_tools", "call_tool", "subprocess"}

\* C20: no failure of an external call made while serving a chat line ends
\* the process: none of them is the call whose exception left chat_loop,
\* each is turned into a result and the loop reads the next line.
C20_NoExternalFailureIsFatal ==
    pc \in {"raised", "exited"} => raised_by \notin ExternalCalls

----------------------------------------------------------------------------
(* C22: the chat loop *)

\* the positions inside process_query and the print of its result
InProcessQuery ==
    pc \in {"list_tools", "model", "dispatch", "done", "api_error", "max_turns"}

\* C22: the chat loop ends exactly when the line read, trimmed and
\* lower-cased, is quit or exit; every other line is handled by exactly one
\* handler, chosen by its prefix, and the loop then reads another line: no
\* handler leaves the loop.
C22_LoopEndsOnQuitOnly ==
    /\ pc = "quit" => Lower(line) \in {"quit", "exit"}
    /\ Lower(line) \in {"quit", "exit"} => pc \in {"quit", "exited"}
    /\ pc \in {"gen_gmail", "exec_gmail"} => StartsWith(Lower(line), "gmail:")
    /\ pc \in {"gen_call", "exec_retell"} =>
          StartsWith(Lower(line), "retell:") \/ StartsWith(Lower(line), "call:")
    /\ InProcessQuery => Route(line) = "process_query" /\ query = line
    /\ pc # "raised"
    /\ exit_from \in {"", "quit", "connect_failed"}

----------------------------------------------------------------------------
(* C23: the roles of the transcript *)

\* the turn is a tool-result carrier: a user-role turn holding tool results
IsCarrier(m) ==
    /\ m.role = "user"
    /\ \A j \in 1..Len(m.content) : m.content[j].type = "tool_result"

\* C23: every turn of the transcript of process_query is a user turn, an
\* assistant turn or a tool-result carrier; the first turn is the user turn
\* carrying the query, and the turns after it alternate assistant,
\* tool-result carrier.
C23_TurnRoles ==
    messages # <<>> =>
        /\ messages[1] = [role |-> "user", content |-> query]
        /\ \A i \in 2..Len(messages) :
              IF i % 2 = 0 THEN messages[i].role = "assistant"
                           ELSE IsCarrier(messages[i])

----------------------------------------------------------------------------
(* C24: the cycle budget *)

\* process_query has returned and its result has not been printed yet
Returned == pc \in {"done", "api_error", "max_turns"}

\* C24: one call of process_query issues at most MAX_TURNS model calls; the
\* string it returns is the maximum-turns sentinel exactly when MAX_TURNS
\* responses were received and every one had stop reason tool_use; the
\* cycle that uses up the budget ends in that return, not in an exception.
C24_BudgetSentinel ==
    /\ [](/\ model_calls <= MAX_TURNS
          /\ Returned => (resp = MaxTurnsSentinel <=>
                             (turn = MAX_TURNS /\ model_calls = MAX_TURNS)))
    /\ [][(turn' = MAX_TURNS /\ turn < MAX_TURNS)
            => (pc' = "max_turns" /\ resp' = MaxTurnsSentinel)]_vars

\* the return of the sentinel after fifteen tool-use responses
C24_Witness ==
    /\ pc = "max_turns"
    /\ resp = MaxTurnsSentinel
    /\ model_calls = MAX_TURNS
    /\ turn = MAX_TURNS

----------------------------------------------------------------------------
(* C27: the last cycle of an exhausted budget *)

\* C27: when process_query returns the maximum-turns sentinel, the tool
\* calls of the last response have all been dispatched and their results
\* appended: the transcript ends with that tool-result turn, which was in no
\* transcript passed to a model call; and a tool-use response is always
\* followed by the dispatch of its tools up to the append of their results.
C27_LastCycleDispatched ==
    /\ [](pc = "max_turns" =>
            /\ model_calls = MAX_TURNS
            /\ response.stop_reason = "tool_use"
            /\ DispatchedIds = ToolUseIds(response.content)
            /\ Last(messages) = ToolResultTurn(tool_results_content)
            /\ ResultIds(Last(messages).content) = DispatchedIds
            /\ messages[Len(messages) - 1] = AssistantTurn(response)
            /\ sent = SubSeq(messages, 1, Len(messages) - 2))
    /\ [][/\ pc = "dispatch" => pc' \in {"dispatch", "model", "max_turns"}
          /\ (pc' = "max_turns" /\ pc # "max_turns")
                => (pc = "dispatch" /\ bi > Len(response.content))]_vars

\* the sentinel returned after the two tool calls of the fifteenth response
\* were dispatched
C27_Witness ==
    /\ pc = "max_turns"
    /\ turn = MAX_TURNS
    /\ Len(dispatched) = 2
    /\ Len(Last(messages).content) = 2
    /\ Len(sent) = Len(messages) - 2

----------------------------------------------------------------------------
(* retell_processor/main.py *)

\* what create_phone_call of the installed client does when invoked: returns
\* an awaitable, returns the response itself, raises TypeError, raises
\* another exception
ClientBehaviours == {"awaitable", "plain", "type_error", "error"}

\* a run of the processor starts: the API key (lines 59-63), the numbers and
\* the agent id (75-97) as the sources resolve them, "" when no source has
\* one; sdk is whether the retell import of lines 13-17 succeeded
RetellInit ==
    /\ ClientStart
    /\ GmailIdle
    /\ r_pc = "validate"
    /\ \E k \in {"", "key_1"}, f \in {"", "+14155550100"}, t \in {"", "+12135550100"},
          a \in {"", "agent_abc123"}, s \in BOOLEAN :
          r_cfg = RetellConfig(k, f, t, a, s)
    /\ r_behaviour \in ClientBehaviours
    /\ clients_built = 0
    /\ create_calls = 0
    /\ placed = 0

\* variant: the agent id is not checked
RetellValidate_SkipsAgentId ==
    /\ r_pc = "validate"
    /\ r_pc' = IF /\ r_cfg.api_key # ""
                  /\ r_cfg.from_number # ""
                  /\ r_cfg.to_number # ""
                  /\ r_cfg.sdk
               THEN "construct" ELSE "config_error"
    /\ UNCHANGED <<r_cfg, r_behaviour, clients_built, create_calls, placed,
                   loopvars, events, toolvars, cmdvars, sessvars, gvars>>

\* lines 52-147: each missing value is reported and main returns
RetellValidate ==
    /\ r_pc = "validate"
    /\ r_pc' = IF /\ r_cfg.api_key # ""
                  /\ r_cfg.from_number # ""
                  /\ r_cfg.to_number # ""
                  /\ r_cfg.agent_id # ""
                  /\ r_cfg.sdk
               THEN "construct" ELSE "config_error"
    /\ UNCHANGED <<r_cfg, r_behaviour, clients_built, create_calls, placed,
                   loopvars, events, toolvars, cmdvars, sessvars, gvars>>

\* lines 149-151: Retell(api_key=api_key) returns the client
ConstructClient ==
    /\ r_pc = "construct"
    /\ r_pc' = "create"
    /\ clients_built' = clients_built + 1
    /\ UNCHANGED <<r_cfg, r_behaviour, create_calls, placed,
                   loopvars, events, toolvars, cmdvars, sessvars, gvars>>

\* lines 152-157: the constructor raises and main returns
ConstructClientFails ==
    /\ r_pc = "construct"
    /\ r_pc' = "failed"
    /\ UNCHANGED <<r_cfg, r_behaviour, clients_built, create_calls, placed,
                   loopvars, events, toolvars, cmdvars, sessvars, gvars>>

\* lines 183-186 (and 194-235, 237-246): create_phone_call is invoked and
\* its result awaited.  A client that returns the response itself has placed
\* the call when await raises TypeError; the TypeError of either origin is
\* caught at 186, any other exception at 237
CreatePhoneCall ==
    /\ r_pc = "create"
    /\ create_calls' = create_calls + 1
    /\ placed' = IF r_behaviour \in {"awaitable", "plain"} THEN placed + 1 ELSE placed
    /\ r_pc' = CASE r_behaviour = "awaitable" -> "done"
                 [] r_behaviour \in {"plain", "type_error"} -> "fallback"
                 [] OTHER -> "failed"
    /\ UNCHANGED <<r_cfg, r_behaviour, clients_built,
                   loopvars, events, toolvars, cmdvars, sessvars, gvars>>

\* lines 187-192 (and 194-235, 237-246): create_phone_call is invoked again,
\* in the executor
CreatePhoneCallInExecutor ==
    /\ r_pc = "fallback"
    /\ create_calls' = create_calls + 1
    /\ placed' = IF r_behaviour = "plain" THEN placed + 1 ELSE placed
    /\ r_pc' = IF r_behaviour = "plain" THEN "done" ELSE "failed"
    /\ UNCHANGED <<r_cfg, r_behaviour, clients_built,
                   loopvars, events, toolvars, cmdvars, sessvars, gvars>>

RetellNext ==
    \/ RetellValidate
    \/ ConstructClient
    \/ ConstructClientFails
    \/ CreatePhoneCall
    \/ CreatePhoneCallInExecutor

\* a run of one of the two processors
ProcessorInit == GmailInit \/ RetellInit

ProcessorNext == GmailNext \/ RetellNext

ProcessorSpec == ProcessorInit /\ [][ProcessorNext]_vars

\* C21: a configuration error returns before any external call: the Retell
\* processor constructs the client and invokes create_phone_call only when
\* the API key, from_number, to_number and agent_id are all non-empty, and
\* the Gmail processor builds the service and issues requests only when a
\* credentials string was found and loaded
C21_NoCallOnConfigError ==
    /\ (clients_built > 0 \/ create_calls > 0 \/ r_pc \in {"create", "fallback", "done"})
          => /\ r_cfg.api_key # ""
             /\ r_cfg.from_number # ""
             /\ r_cfg.to_number # ""
             /\ r_cfg.agent_id # ""
    /\ r_pc = "config_error" => clients_built = 0 /\ create_calls = 0 /\ placed = 0
    /\ (service_built > 0 \/ requests # <<>> \/ g_pc \in {"search", "found"})
          => g_creds = "valid"
    /\ g_pc = "config_error" => service_built = 0 /\ requests = <<>>

\* a run that stopped because only the agent id is missing
C21_Witness ==
    /\ r_pc = "config_error"
    /\ r_cfg.api_key # "" /\ r_cfg.from_number # "" /\ r_cfg.to_number # ""
    /\ r_cfg.agent_id = ""
    /\ r_cfg.sdk

\* C25: in one run of the Retell processor create_phone_call is invoked at
\* most once, whatever the client does, so one run places at most one call.
C25_AtMostOneCreateCall ==
    /\ create_calls <= 1
    /\ placed <= 1

\* C26: the Gmail processor started for a gmail: command searches with
\* exactly the string that generate_gmail_query returned, whatever that
\* string is, the empty string included: the processor reaches the search
\* and every list request carries that string as q.
C26_SearchesGeneratedQuery ==
    /\ g_pc # "usage_error"
    /\ g_pc \in {"build", "search", "found", "failed"} => search_query = gmail_query
    /\ \A i \in 1..Len(requests) : requests[i].q = gmail_query

\* the processor runs on: a step it can take is taken
GmailFairSpec ==
    /\ GmailSpec
    /\ WF_vars(GmailConfigure)
    /\ WF_vars(BuildService \/ BuildServiceFails)
    /\ WF_vars(ListPage)

\* C28: against a service whose token-carrying pages are never empty, the
\* pagination loop ends; it issues at most max_results list requests, goes
\* on only while the last page came with a token and fewer than max_results
\* messages are collected, and hands on at most max_results messages.
C28_PaginationTerminates ==
    /\ [](/\ Len(requests) <= max_results
          /\ Len(found) <= max_results
          /\ \A i \in 1..Len(requests) :
                requests[i].nextPageToken # 0 => requests[i].nextPageToken > requests[i].pageToken
          /\ (g_pc = "search" /\ requests # <<>>) =>
                (Last(requests).nextPageToken # 0 /\ Len(all_messages) < max_results)
          /\ g_pc = "found" =>
                (Last(requests).nextPageToken = 0 \/ Len(all_messages) >= max_results))
    /\ (g_pc = "search") ~> (g_pc \in {"found", "failed"})

\* a search that took max_results requests, one message a page
C28_Witness ==
    /\ g_pc = "found"
    /\ page_size = 1
    /\ Len(requests) = max_results
    /\ Len(found) = max_results

----------------------------------------------------------------------------

Next ==
    \/ Connect
    \/ ConnectFails
    \/ Cleanup
    \/ CatalogueChanges
    \/ ReadQuery
    \/ ReadGmail
    \/ GenerateGmailQuery
    \/ ExecuteGmailProcessor
    \/ ReadCall
    \/ GeneratePhoneCallParams
    \/ ExecuteRetellProcessor
    \/ InputFails
    \/ Quit
    \/ ListTools
    \/ ListToolsFails
    \/ ModelCall
    \/ ModelCallFails
    \/ SkipBlock
    \/ CallTool
    \/ AppendToolResults
    \/ PrintResponse

Spec == Init /\ [][Next]_vars

\* every call that process_query awaits answers, and process_query runs on
FairSpec ==
    /\ Spec
    /\ WF_vars(ListTools \/ ListToolsFails)
    /\ WF_vars(ModelCall \/ ModelCallFails)
    /\ WF_vars(SkipBlock)
    /\ WF_vars(CallTool)
    /\ WF_vars(AppendToolResults)
====
